---- MODULE Spec2Model ----
(***************************************************************************)
(* Model of infra/base-images/base-builder/indexer/clang_wrapper.py: the   *)
(* link-time provenance wrapper.  A string is a sequence of tokens, each   *)
(* token a fixed literal piece of text ("/" , "src", ".o", " ", ...), so   *)
(* that str.startswith / str.endswith / slicing are sequence operations.   *)
(***************************************************************************)
EXTENDS Naturals, Sequences, FiniteSets, TLC

VARIABLES proc, fs, clock, comp

vars == <<proc, fs, clock, comp>>

None == <<"None">>

(* ------------------------------ strings -------------------------------- *)

StartsWith(s, p) == Len(p) <= Len(s) /\ SubSeq(s, 1, Len(p)) = p

EndsWith(s, p) == Len(p) <= Len(s) /\ SubSeq(s, Len(s) - Len(p) + 1, Len(s)) = p

DropFirst(s, n) == SubSeq(s, n + 1, Len(s))

DropLast(s, n) == SubSeq(s, 1, Len(s) - n)

IsSpace(t) == t \in {" ", "\n"}

RECURSIVE LStrip(_)
LStrip(s) == IF s # <<>> /\ IsSpace(Head(s)) THEN LStrip(Tail(s)) ELSE s

RECURSIVE RStrip(_)
RStrip(s) == IF s # <<>> /\ IsSpace(s[Len(s)]) THEN RStrip(DropLast(s, 1)) ELSE s

Strip(s) == RStrip(LStrip(s))

LastIndexOf(s, t) ==
  LET hits == {k \in 1..Len(s) : s[k] = t}
  IN  IF hits = {} THEN 0 ELSE CHOOSE k \in hits : \A j \in hits : j <= k

(* ------------------------------- paths --------------------------------- *)

Cwd == <<"/", "src">>

\* The symbolic links of the build file system: link path -> target path.
Symlinks ==
  {<< <<"/", "src", "/", "sys">>, <<"/", "usr">> >>,
   << <<"/", "src", "/", "ln">>, <<"/", "src", "/", "sub">> >>}

basename(p) == DropFirst(p, LastIndexOf(p, "/"))

join(a, b) ==
  IF b # <<>> /\ Head(b) = "/" THEN b
  ELSE IF a = <<>> \/ a[Len(a)] = "/" THEN a \o b
  ELSE a \o <<"/">> \o b

abspath(p) == IF p # <<>> /\ Head(p) = "/" THEN p ELSE IF p = <<>> THEN Cwd ELSE join(Cwd, p)

realpath(p) ==
  LET a == abspath(p)
      hit == {l \in Symlinks : a = l[1] \/ StartsWith(a, l[1] \o <<"/">>)}
  IN  IF hit = {} THEN a
      ELSE LET l == CHOOSE x \in hit : TRUE
           IN  l[2] \o DropFirst(a, Len(l[1]))

LocalBin(arg0) == join(<<"/", "usr", "/", "local", "/", "bin", "/">>, basename(arg0))

(* ------------------------------- flags --------------------------------- *)

FlagO == <<"-o">>
FlagCdb == <<"-gen-cdb-fragment-path">>
LFuzzingEngine == <<"-lFuzzingEngine">>

\* First index i in 1..Len(argv)-1 at which the loop of get_flag_value /
\* remove_flag_and_value returns, 0 if it runs to the end.
FlagHit(argv, flag, i) ==
  argv[i] = flag \/ (flag = FlagO /\ StartsWith(argv[i], flag))

FlagRangeLast(argv) == Len(argv) - 1

FlagIndex(argv, flag) ==
  LET hits == {i \in 1..FlagRangeLast(argv) : FlagHit(argv, flag, i)}
  IN  IF hits = {} THEN 0 ELSE CHOOSE i \in hits : \A j \in hits : i <= j

get_flag_value(argv, flag) ==
  LET i == FlagIndex(argv, flag)
  IN  IF i = 0 THEN None
      ELSE IF argv[i] = flag THEN argv[i + 1]
      ELSE DropFirst(argv[i], 1)

remove_flag_and_value(argv, flag) ==
  LET i == FlagIndex(argv, flag)
  IN  IF i = 0 THEN None
      ELSE SubSeq(argv, 1, i - 1) \o DropFirst(argv, i + 1)

\* Python truthiness of a str-or-None value.
Truthy(v) == v # None /\ v # <<>>

InArgv(x, argv) == \E k \in 1..Len(argv) : argv[k] = x

\* A slip: the unset variable no longer sends the call straight through.
IsPassthroughWhenSet(fuzzer_engine, argv) ==
  Truthy(fuzzer_engine)
    /\ ~InArgv(fuzzer_engine, argv) /\ ~InArgv(LFuzzingEngine, argv)

IsPassthrough(fuzzer_engine, argv) ==
  ~Truthy(fuzzer_engine)
    \/ (~InArgv(fuzzer_engine, argv) /\ ~InArgv(LFuzzingEngine, argv))

(* ------------------------- dependency file ----------------------------- *)

IndexOf(s, t) ==
  LET hits == {k \in 1..Len(s) : s[k] = t}
  IN  IF hits = {} THEN 0 ELSE CHOOSE k \in hits : \A j \in hits : k <= j

\* "for line in f": the text cut after each newline; no empty last line.
RECURSIVE FileLines(_)
FileLines(data) ==
  IF data = <<>> THEN <<>>
  ELSE LET k == IndexOf(data, "\n")
       IN  IF k = 0 THEN <<data>>
           ELSE <<SubSeq(data, 1, k)>> \o FileLines(DropFirst(data, k))

StrippedLines(data) == [k \in 1..Len(FileLines(data)) |-> Strip(FileLines(data)[k])]

output_file_line(output_file) == realpath(output_file) \o <<":", " ", "\\">>

\* A slip: the header compared for equality.
HeaderEqual(header, first_line) == header = first_line

HeaderAccepted(header, first_line) == EndsWith(header, first_line)

ignored_dep_paths == <<<<"/", "usr">>, <<"/", "clang">>, <<"/", "lib">>>>

IsSystemDep(dep) ==
  \E k \in 1..Len(ignored_dep_paths) : StartsWith(dep, ignored_dep_paths[k])

Continuation == <<" ", "\\">>

DepOfLine(line) ==
  realpath(IF EndsWith(line, Continuation) THEN DropLast(line, 2) ELSE line)

\* The loop over lines[1:], from line k on.
RECURSIVE DepLoop(_, _, _)
DepLoop(lines, k, ignored_deps) ==
  IF k > Len(lines) \/ lines[k] = <<>> THEN <<>>
  ELSE LET dep == DepOfLine(lines[k])
           rest == DepLoop(lines, k + 1, ignored_deps)
       IN  IF IsSystemDep(dep) \/ dep \in ignored_deps THEN rest
           ELSE <<dep>> \o rest

\* ok = FALSE: the assertion (or the IndexError of an empty file) ends the run.
parse_dependency_file(data, output_file, ignored_deps) ==
  LET lines == StrippedLines(data)
  IN  IF lines = <<>> \/ ~HeaderAccepted(output_file_line(output_file), lines[1])
      THEN [ok |-> FALSE, deps |-> <<>>]
      ELSE [ok |-> TRUE, deps |-> DepLoop(lines, 2, ignored_deps)]

(* --------------------------- fragment store ---------------------------- *)

\* The compile commands that occur; a token is the JSON text of one object.
Cmd(tok) ==
  CASE tok = "A1" -> [directory |-> <<"/", "src">>, output |-> <<"a", ".o">>, arguments |-> "v1"]
    [] tok = "A2" -> [directory |-> <<"/", "src">>, output |-> <<"a", ".o">>, arguments |-> "v2"]
    [] tok = "B1" -> [directory |-> <<"/", "src", "/", "sub">>, output |-> <<"b", ".o">>, arguments |-> "v1"]
    [] tok = "B2" -> [directory |-> <<"/", "src", "/", "ln">>, output |-> <<"b", ".o">>, arguments |-> "v2"]
    [] tok = "E1" -> [directory |-> <<"/", "other">>, output |-> <<"/", "other", "/", "a", ".o">>, arguments |-> "v1"]

ObjTokens == {"A1", "A2", "B1", "B2", "E1"}

Sentinel == <<",", "\n">>

LinkerCommandsSuffix == <<"_linker_commands", ".json">>
JsonSuffix == <<".json">>

\* Orders of a set of paths by ascending key; equal keys in any order
\* (os.listdir's order is arbitrary and the sort is stable).
SortedBy(S, key(_)) ==
  LET RECURSIVE Orders(_)
      Orders(T) ==
        IF T = {} THEN {<<>>}
        ELSE LET least == {x \in T : \A y \in T : key(x) <= key(y)}
             IN  UNION {{<<x>> \o rest : rest \in Orders(T \ {x})} : x \in least}
  IN  Orders(S)

\* The file system maps the canonical path of each entry to [data, ctime,
\* isfile]; ctime is what os.path.getctime returns (on Linux the time of the
\* last change of the entry).
InFolder(p, folder_path) == p = join(realpath(folder_path), basename(p))

files_by_creation_time(d, folder_path) ==
  LET files == {join(folder_path, basename(p)) :
                  p \in {q \in DOMAIN d : InFolder(q, folder_path) /\ d[q].isfile}}
      getctime(f) == d[realpath(f)].ctime
  IN  SortedBy(files, getctime)

\* A slip: earlier records are not excluded.
FragmentSkippedUnlessJson(file) == ~EndsWith(file, JsonSuffix)

\* What the loop body of read_cdb_fragments does with one file.
FragmentSkipped(file) ==
  EndsWith(file, LinkerCommandsSuffix) \/ ~EndsWith(file, JsonSuffix)

\* A slip: the sentinel is not checked.
FragmentAlwaysOk(data) == TRUE

FragmentOk(data) == EndsWith(data, Sentinel)

JoinContents(contents) ==
  LET RECURSIVE J(_)
      J(k) == IF k > Len(contents) THEN <<>>
              ELSE (IF k > 1 THEN Sentinel ELSE <<>>) \o contents[k] \o J(k + 1)
  IN  <<"[">> \o J(1) \o <<"]">>

\* json.loads of an array literal of command objects.
json_loads(text) ==
  LET t == SelectSeq(text, LAMBDA x : ~IsSpace(x))
      n == Len(t)
      inner == SubSeq(t, 2, n - 1)
      m == Len(inner)
      shape == /\ n >= 2 /\ t[1] = "[" /\ t[n] = "]"
               /\ (m = 0 \/ m % 2 = 1)
               /\ \A k \in 1..m : IF k % 2 = 1 THEN inner[k] \in ObjTokens
                                  ELSE inner[k] = ","
  IN  IF shape THEN [ok |-> TRUE, value |-> [k \in 1..((m + 1) \div 2) |-> Cmd(inner[2 * k - 1])]]
      ELSE [ok |-> FALSE, value |-> <<>>]

(* ------------------------------ matcher -------------------------------- *)

command_path(command) == realpath(join(command.directory, command.output))

ObjMatch(command, dep) == command_path(command) = dep

ArMatch(command, archive_dep) == basename(command.output) = archive_dep

\* A slip: the loop stops at the first match.
BoundIndexFirst(hits) == CHOOSE k \in hits : \A j \in hits : k <= j

\* "for command in cdb: if <match>: commands[dep] = command" leaves the key
\* bound to the command of the last matching index.
BoundIndex(hits) == CHOOSE k \in hits : \A j \in hits : j <= k

HasKey(commands, key) == \E k \in 1..Len(commands) : commands[k].key = key

\* dict assignment: a known key keeps its place, a new key goes last.
DictSet(commands, key, command) ==
  IF HasKey(commands, key)
  THEN [k \in 1..Len(commands) |->
          IF commands[k].key = key THEN [key |-> key, command |-> command]
          ELSE commands[k]]
  ELSE Append(commands, [key |-> key, command |-> command])

\* A slip: an unmatched dependency is entered with no command.
BindOrNull(acc, key, hits, cdb) ==
  [commands |-> DictSet(acc.commands, key,
                        IF hits = {} THEN None ELSE cdb[BoundIndex(hits)]),
   notfound |-> IF hits = {} THEN Append(acc.notfound, key) ELSE acc.notfound]

Bind(acc, key, hits, cdb) ==
  LET cs == IF hits = {} THEN acc.commands
            ELSE DictSet(acc.commands, key, cdb[BoundIndex(hits)])
  IN  [commands |-> cs,
       notfound |-> IF HasKey(cs, key) THEN acc.notfound ELSE Append(acc.notfound, key)]

RECURSIVE MatchObjDeps(_, _, _, _, _)
MatchObjDeps(obj_deps, k, cdb, fuzzer_engine, acc) ==
  IF k > Len(obj_deps) THEN acc
  ELSE IF obj_deps[k] = fuzzer_engine
       THEN MatchObjDeps(obj_deps, k + 1, cdb, fuzzer_engine, acc)
       ELSE LET dep == realpath(obj_deps[k])
                hits == {j \in 1..Len(cdb) : ObjMatch(cdb[j], dep)}
            IN  MatchObjDeps(obj_deps, k + 1, cdb, fuzzer_engine, Bind(acc, dep, hits, cdb))

RECURSIVE MatchArchiveDeps(_, _, _, _)
MatchArchiveDeps(archive_deps, k, cdb, acc) ==
  IF k > Len(archive_deps) THEN acc
  ELSE LET hits == {j \in 1..Len(cdb) : ArMatch(cdb[j], archive_deps[k])}
       IN  MatchArchiveDeps(archive_deps, k + 1, cdb, Bind(acc, archive_deps[k], hits, cdb))

MatchCommands(obj_deps, archive_deps, cdb, fuzzer_engine) ==
  MatchArchiveDeps(archive_deps, 1, cdb,
    MatchObjDeps(obj_deps, 1, cdb, fuzzer_engine, [commands |-> <<>>, notfound |-> <<>>]))

Values(commands) == [k \in 1..Len(commands) |-> commands[k].command]

(* ---------------------------- ELF notes -------------------------------- *)

BuildIdSection == ".note.gnu.build-id"

\* elf_data: a sequence of file summaries, each a sequence of note sections
\* [Name, Note], Note a record that may carry BuildID.  ok = FALSE: "assert
\* elf_data" fails.
RECURSIVE FirstBuildId(_)
FirstBuildId(sections) ==
  IF sections = <<>> THEN None
  ELSE IF Head(sections).Name = BuildIdSection /\ Head(sections).Note # None
       THEN Head(sections).Note
       ELSE FirstBuildId(Tail(sections))

Flatten(elf_data) ==
  LET RECURSIVE F(_)
      F(k) == IF k > Len(elf_data) THEN <<>> ELSE elf_data[k] \o F(k + 1)
  IN  F(1)

get_build_id_from_elf_notes(elf_data) ==
  IF elf_data = <<>> THEN [ok |-> FALSE, id |-> None]
  ELSE [ok |-> TRUE, id |-> FirstBuildId(Flatten(elf_data))]

(* ------------------------------ processes ------------------------------ *)

\* proc[i]: the locals of main() in wrapper process i, and where it stands.
\* exit_code is meaningful once pc is "exit" (failed) or "done".  files is the
\* listing and nfile the number of its files the read loop has passed.  ran
\* lists the child processes run so far with their return codes, and torn
\* the listed fragments that lacked the sentinel when they were listed: both
\* are history, kept for stating the claims.
\* given keeps sys.argv as the process was started (argv is rewritten in place).
NewProc(argv, fuzzer_engine, ignored_deps) ==
  [pc |-> "start", given |-> argv, argv |-> argv, fuzzer_engine |-> fuzzer_engine,
   ignored_deps |-> ignored_deps, output_file |-> None, cdb_path |-> None,
   build_id |-> None, output_hash |-> None, deps |-> <<>>,
   archive_deps |-> <<>>, files |-> <<>>, nfile |-> 0, contents |-> <<>>,
   cdb |-> <<>>, commands |-> <<>>, notfound |-> <<>>, exit_code |-> 0,
   ran |-> <<>>, torn |-> {}]

\* open(path, "w") and write at time t.  birth (when the entry was created)
\* and kind (who writes such files) are kept for stating the claims; the
\* program reads neither.
WriteFileAt(f, path, data, t, kind) ==
  [p \in DOMAIN f \cup {realpath(path)} |->
     IF p = realpath(path)
     THEN [data |-> data, ctime |-> t, isfile |-> TRUE, kind |-> kind,
           birth |-> IF p \in DOMAIN f THEN f[p].birth ELSE t]
     ELSE f[p]]

WriteFile(f, path, data, kind) == WriteFileAt(f, path, data, clock, kind)

Exited(p, code) == [p EXCEPT !.pc = "exit", !.exit_code = code]

dependency_file(p) == join(p.cdb_path, basename(p.output_file) \o <<".deps">>)
why_extract_file(p) == join(p.cdb_path, basename(p.output_file) \o <<".why_extract">>)
\* A slip: the record named after the output, not the build identifier.
commands_path_by_output(p) ==
  join(p.cdb_path, basename(p.output_file) \o LinkerCommandsSuffix)

commands_path(p) == join(p.cdb_path, p.build_id \o LinkerCommandsSuffix)

obj_deps(p) == SelectSeq(p.deps, LAMBDA dep : EndsWith(dep, <<".o">>))
ar_deps(p) ==
  SelectSeq(p.deps, LAMBDA dep : EndsWith(dep, <<".a">>) /\ dep # p.fuzzer_engine)

\* execute(argv): os.execv replaces the process; nothing of main runs after.
Execute(i) ==
  /\ proc[i].pc = "start"
  /\ IsPassthrough(proc[i].fuzzer_engine, proc[i].argv)
  /\ proc' = [proc EXCEPT ![i].pc = "exec",
                          ![i].argv = [proc[i].argv EXCEPT ![1] = LocalBin(@)]]
  /\ UNCHANGED <<fs, clock, comp>>

AugmentedArgv(argv, p) ==
  remove_flag_and_value(argv, FlagCdb)
    \o << <<"-fuse-ld=lld">>,
          <<"-Wl,--dependency-file=">> \o dependency_file(p),
          <<"-Wl,--why-extract=">> \o why_extract_file(p),
          <<"-Wl,--build-id">> >>

\* Lines 236-254: flag extraction and link augmentation.
Flagged(p) ==
  LET o == get_flag_value(p.argv, FlagO)
      c == get_flag_value(p.argv, FlagCdb)
      q == [p EXCEPT !.output_file = o, !.cdb_path = c]
  IN  IF ~Truthy(o) THEN Exited([p EXCEPT !.output_file = o], 1)
      ELSE IF ~Truthy(c) THEN Exited(q, 1)
      ELSE [q EXCEPT !.pc = "link", !.argv = AugmentedArgv(p.argv, q)]

GetFlags(i) ==
  /\ proc[i].pc = "start"
  /\ ~IsPassthrough(proc[i].fuzzer_engine, proc[i].argv)
  /\ proc' = [proc EXCEPT ![i] = Flagged(proc[i])]
  /\ UNCHANGED <<fs, clock, comp>>

\* What the linker can leave behind: a binary (its notes and hash) and the
\* text of the dependency file.
Notes(bin) ==
  LET abi == [Name |-> ".note.ABI-tag", Note |-> None]
  IN  CASE bin = "bin1" -> << <<abi, [Name |-> BuildIdSection, Note |-> <<"id1">>]>> >>
        [] bin = "bin2" -> << <<abi>>, <<[Name |-> BuildIdSection, Note |-> <<"id2">>]>> >>
        [] bin = "binNoSection" -> << <<abi>> >>
        [] bin = "binNoField" -> << <<[Name |-> BuildIdSection, Note |-> None]>> >>
        [] OTHER -> <<>>

sha256(data) == <<"sha256">> \o data

\* run(argv) at line 255: the link as a child process.  A failing link ends
\* the wrapper with the link's exit code.
Child(p, tool, rc) == [p EXCEPT !.ran = Append(@, [tool |-> tool, returncode |-> rc])]

\* A slip: the link's return code is not looked at.
LinkedUnchecked(p, rc) ==
  [Child([p EXCEPT !.argv = [p.argv EXCEPT ![1] = LocalBin(@)]], "link", rc)
     EXCEPT !.pc = "identify"]

Linked(p, rc) ==
  LET q == Child([p EXCEPT !.argv = [p.argv EXCEPT ![1] = LocalBin(@)]], "link", rc)
  IN  IF rc # 0 THEN Exited(q, rc) ELSE [q EXCEPT !.pc = "identify"]

LinkOutputs(f, p, bin, deptext, t) ==
  WriteFileAt(WriteFileAt(WriteFileAt(f, p.output_file, <<bin>>, t, "binary"),
                          dependency_file(p), deptext, t, "linkout"),
              why_extract_file(p), <<>>, t, "linkout")

RunLink(i, rc, bin, deptext) ==
  /\ proc[i].pc = "link"
  /\ proc' = [proc EXCEPT ![i] = Linked(proc[i], rc)]
  /\ IF rc # 0 THEN UNCHANGED <<fs, clock>>
     ELSE /\ fs' = LinkOutputs(fs, proc[i], bin, deptext, clock)
          /\ clock' = clock + 1
  /\ UNCHANGED comp

\* Lines 257-263: get_build_id (llvm-readelf with check=True) and sha256.
Identified(p, rc, bin) ==
  LET r == get_build_id_from_elf_notes(Notes(bin[1]))
      q == Child(p, "readelf", rc)
  IN  IF rc # 0 \/ ~r.ok \/ r.id = None THEN Exited(q, 1)
      ELSE [q EXCEPT !.pc = "parse", !.build_id = r.id, !.output_hash = sha256(bin)]

Identify(i, rc) ==
  /\ proc[i].pc = "identify"
  /\ proc' = [proc EXCEPT ![i] =
        Identified(proc[i], rc, fs[realpath(proc[i].output_file)].data)]
  /\ UNCHANGED <<fs, clock, comp>>

\* Line 265.
Parsed(p, data) ==
  LET r == parse_dependency_file(data, p.output_file, p.ignored_deps)
  IN  IF ~r.ok THEN Exited(p, 1) ELSE [p EXCEPT !.pc = "ar", !.deps = r.deps]

ParseDeps(i) ==
  /\ proc[i].pc = "parse"
  /\ proc' = [proc EXCEPT ![i] =
        Parsed(proc[i], fs[realpath(dependency_file(proc[i]))].data)]
  /\ UNCHANGED <<fs, clock, comp>>

\* "ar -t archive": the member names of the archives that occur.
ArMembers(archive) ==
  CASE archive = <<"/", "src", "/", "b", ".a">> -> << <<"a", ".o">>, <<"z", ".o">> >>
    [] archive = <<"/", "src", "/", "c", ".a">> -> << <<"b", ".o">>, <<"a", ".o">> >>
    [] OTHER -> <<>>

RECURSIVE AllMembers(_)
AllMembers(archives) ==
  IF archives = <<>> THEN <<>>
  ELSE ArMembers(Head(archives)) \o AllMembers(Tail(archives))

\* Lines 268-271: check=True makes a failing ar fatal.
Archived(p, failed) ==
  LET q == IF ar_deps(p) = <<>> THEN p ELSE Child(p, "ar", IF failed THEN 1 ELSE 0)
  IN  IF failed THEN Exited(q, 1)
      ELSE [q EXCEPT !.pc = "list", !.archive_deps = AllMembers(ar_deps(p))]

ListArchives(i, failed) ==
  /\ proc[i].pc = "ar"
  /\ failed => ar_deps(proc[i]) # <<>>
  /\ proc' = [proc EXCEPT ![i] = Archived(proc[i], failed)]
  /\ UNCHANGED <<fs, clock, comp>>

\* Line 207: the listing, sorted, taken at one moment.
Listed(p, f, files) ==
  [p EXCEPT !.pc = "read", !.files = files,
            !.torn = {files[k] : k \in {j \in 1..Len(files) :
                        /\ f[realpath(files[j])].kind = "fragment"
                        /\ ~EndsWith(f[realpath(files[j])].data, Sentinel)}}]

ListFragments(i) ==
  /\ proc[i].pc = "list"
  /\ \E files \in files_by_creation_time(fs, proc[i].cdb_path) :
       proc' = [proc EXCEPT ![i] = Listed(proc[i], fs, files)]
  /\ UNCHANGED <<fs, clock, comp>>

\* Lines 209-220: one turn of the loop, on the next listed file.
FragmentRead(p, f) ==
  LET file == p.files[p.nfile + 1]
      data == f[realpath(file)].data
  IN  IF FragmentSkipped(file) THEN [p EXCEPT !.nfile = @ + 1]
      ELSE IF ~FragmentOk(data) THEN Exited(p, 1)
      ELSE [p EXCEPT !.nfile = @ + 1, !.contents = Append(@, DropLast(data, 2))]

ReadFragment(i) ==
  /\ proc[i].pc = "read"
  /\ proc[i].nfile < Len(proc[i].files)
  /\ proc' = [proc EXCEPT ![i] = FragmentRead(proc[i], fs)]
  /\ UNCHANGED <<fs, clock, comp>>

\* Lines 221-223.
CdbLoaded(p) ==
  LET r == json_loads(JoinContents(p.contents))
  IN  IF ~r.ok THEN Exited(p, 1) ELSE [p EXCEPT !.pc = "match", !.cdb = r.value]

ParseCdb(i) ==
  /\ proc[i].pc = "read"
  /\ proc[i].nfile = Len(proc[i].files)
  /\ proc' = [proc EXCEPT ![i] = CdbLoaded(proc[i])]
  /\ UNCHANGED <<fs, clock, comp>>

\* Lines 274-298.
Matched(p) ==
  LET m == MatchCommands(obj_deps(p), p.archive_deps, p.cdb, p.fuzzer_engine)
  IN  [p EXCEPT !.pc = "write", !.commands = m.commands, !.notfound = m.notfound]

Match(i) ==
  /\ proc[i].pc = "match"
  /\ proc' = [proc EXCEPT ![i] = Matched(proc[i])]
  /\ UNCHANGED <<fs, clock, comp>>

linker_commands(p) ==
  [output |-> p.output_file, directory |-> Cwd,
   deps |-> obj_deps(p) \o p.archive_deps, args |-> p.argv,
   sha256 |-> p.output_hash, gnu_build_id |-> p.build_id,
   compile_commands |-> Values(p.commands)]

\* Lines 300-312.
WriteRecord(i) ==
  LET p == proc[i]
  IN  /\ p.pc = "write"
      /\ fs' = WriteFile(fs, commands_path(p), <<linker_commands(p)>>, "record")
      /\ clock' = clock + 1
      /\ proc' = [proc EXCEPT ![i].pc = "done", ![i].exit_code = 0]
      /\ UNCHANGED comp

(* ------------------- compile steps (the environment) ------------------- *)

\* comp[c] = [pc, file, text]: a compile step that writes the fragment
\* `file`, holding the command object `text` followed by the sentinel.
CompOpen(c) ==
  /\ comp[c].pc = "idle"
  /\ fs' = WriteFile(fs, comp[c].file, <<>>, "fragment")
  /\ clock' = clock + 1
  /\ comp' = [comp EXCEPT ![c].pc = "open"]
  /\ UNCHANGED proc

CompBody(c) ==
  /\ comp[c].pc = "open"
  /\ fs' = WriteFile(fs, comp[c].file, <<comp[c].text>>, "fragment")
  /\ clock' = clock + 1
  /\ comp' = [comp EXCEPT ![c].pc = "body"]
  /\ UNCHANGED proc

CompClose(c) ==
  /\ comp[c].pc \in {"open", "body"}
  /\ fs' = WriteFile(fs, comp[c].file, <<comp[c].text>> \o Sentinel, "fragment")
  /\ clock' = clock + 1
  /\ comp' = [comp EXCEPT ![c].pc = "closed"]
  /\ UNCHANGED proc

(* ------------------------- inputs and bounds --------------------------- *)

Clang == <<"clang">>
Foo == <<"f", "oo">>
CdbDir == <<"/", "cdb">>
EngineLib == <<"/", "src", "/", "eng", ".a">>
IgnoredObj == <<"/", "src", "/", "ign", ".o">>

BoundedSeq(S, n) == UNION {[1..k -> S] : k \in 0..n}

EmptyFs == [p \in {} |-> 0]
NoComp == [c \in {} |-> 0]

\* The arguments after argv[0] of the invocations explored by SpecFlag.
MaxArgs == 5

ArgPool == {FlagO, FlagO \o Foo, Foo, LFuzzingEngine, EngineLib, FlagCdb, CdbDir}

EnvPool == {None, <<>>, EngineLib}

(* ---------------- dispatch on every short argument list ---------------- *)

InitFlag ==
  /\ \E rest \in BoundedSeq(ArgPool, MaxArgs), e \in EnvPool :
       proc = [i \in {"L1"} |-> NewProc(<<Clang>> \o rest, e, {})]
  /\ fs = EmptyFs
  /\ clock = 1
  /\ comp = NoComp

NextFlag ==
  \/ \E i \in DOMAIN proc : Execute(i)
  \/ \E i \in DOMAIN proc : GetFlags(i)
  \/ \E i \in DOMAIN proc, rc \in {0, 2} :
       RunLink(i, rc, "bin1", <<>>)

SpecFlag == InitFlag /\ [][NextFlag]_vars

(* ------------- the dependency parser on every short file --------------- *)

CaptureArgv(out) == <<Clang, LFuzzingEngine, FlagO, out, FlagCdb, CdbDir>>

\* A capture run as it stands before the link, and after a link that wrote
\* the binary bin.
AtLink(out, e, ign) == Flagged(NewProc(CaptureArgv(out), e, ign))
AtParse(out, e, ign, bin) == Identified(Linked(AtLink(out, e, ign), 0), 0, <<bin>>)

Colon == <<":", " ", "\\">>
Cont(path) == path \o Continuation
Indent(line) == <<" ", " ">> \o line

OutPool == {Foo, <<"/", "src", "/", "ln", "/">> \o Foo}

HeaderPool(out) ==
  {realpath(out) \o Colon, Indent(basename(out) \o Colon), <<"oo">> \o Colon,
   Colon, <<"\\">>, <<>>, <<"bar">> \o Colon, <<"x">> \o Foo \o Colon,
   basename(out) \o <<":">>}

LinePool ==
  {Indent(Cont(<<"a", ".o">>)),
   Indent(Cont(<<"/", "usr", "/", "lib", "/", "libc", ".a">>)),
   Indent(<<"b", ".a">>),
   <<>>,
   Cont(<<"/", "lib", "x", "/", "c", ".o">>),
   <<"/", "src", "/", "sys", "/", "d", ".o">>,
   Cont(IgnoredObj),
   <<"/", "lib">>}

MaxDepLines == 3

RECURSIVE TextOf(_)
TextOf(lines) ==
  IF lines = <<>> THEN <<>> ELSE Head(lines) \o <<"\n">> \o TextOf(Tail(lines))

DepTexts(out) ==
  {<<>>} \cup {TextOf(<<h>> \o body) :
                 h \in HeaderPool(out), body \in BoundedSeq(LinePool, MaxDepLines)}

InitDeps ==
  /\ clock = 2
  /\ comp = NoComp
  /\ \E out \in OutPool, ign \in {{}, {IgnoredObj}} :
       \E text \in DepTexts(out) :
         /\ proc = [i \in {"L1"} |-> AtParse(out, EngineLib, ign, "bin1")]
         /\ fs = LinkOutputs(EmptyFs, AtLink(out, EngineLib, ign), "bin1", text, 1)

NextDeps == \E i \in DOMAIN proc : ParseDeps(i)

SpecDeps == InitDeps /\ [][NextDeps]_vars

(* ------------- the fragment reader on every small directory ------------ *)

\* The dependency file the linker writes for output out and these inputs.
DepsOf(out, paths) ==
  TextOf(<<out \o Colon>> \o [k \in 1..Len(paths) |-> Indent(Cont(paths[k]))] \o << <<>> >>)

AtList(out, e, deps) ==
  Archived(Parsed(AtParse(out, e, {}, "bin1"), DepsOf(out, deps)), FALSE)

InCdb(name) == join(CdbDir, name)

FragNamePool ==
  {<<"a", ".1", ".json">>, <<"b", ".2", ".json">>, <<"c", ".frag">>}

FragDataPool ==
  {<<"A1">> \o Sentinel, <<"B1">> \o Sentinel, <<"A2">> \o Sentinel, <<"A1">>, <<>>}

\* (birth, ctime) of a fragment: written at once, or created early and
\* completed late.
FragTimePool == {<<2, 2>>, <<3, 3>>, <<1, 4>>}

MaxFrags == 2

OldRecord ==
  [data |-> <<"record">>, ctime |-> 1, birth |-> 1, isfile |-> TRUE, kind |-> "record"]

SubDir ==
  [data |-> <<>>, ctime |-> 1, birth |-> 1, isfile |-> FALSE, kind |-> "other"]

FragDirs ==
  UNION {[names -> FragDataPool \X FragTimePool] :
           names \in {n \in SUBSET FragNamePool : Cardinality(n) <= MaxFrags}}

WithFragments(f, frags, extra) ==
  [p \in DOMAIN f \cup {InCdb(n) : n \in DOMAIN frags} \cup DOMAIN extra |->
     IF p \in DOMAIN extra THEN extra[p]
     ELSE IF p \in DOMAIN f THEN f[p]
     ELSE LET n == CHOOSE m \in DOMAIN frags : InCdb(m) = p
          IN  [data |-> frags[n][1], birth |-> frags[n][2][1], ctime |-> frags[n][2][2],
               isfile |-> TRUE, kind |-> "fragment"]]

ExtraPool ==
  {EmptyFs,
   [p \in {InCdb(<<"id2">> \o LinkerCommandsSuffix)} |-> OldRecord],
   [p \in {InCdb(<<"objs", ".json">>)} |-> SubDir]}

InitCdb ==
  /\ clock = 6
  /\ comp = NoComp
  /\ proc = [i \in {"L1"} |-> AtList(Foo, EngineLib, <<>>)]
  /\ \E frags \in FragDirs, extra \in ExtraPool :
       fs = WithFragments(LinkOutputs(EmptyFs, AtLink(Foo, EngineLib, {}), "bin1",
                                      DepsOf(Foo, <<>>), 5),
                          frags, extra)

NextCdb ==
  \/ \E i \in DOMAIN proc : ListFragments(i)
  \/ \E i \in DOMAIN proc : ReadFragment(i)
  \/ \E i \in DOMAIN proc : ParseCdb(i)

SpecCdb == InitCdb /\ [][NextCdb]_vars

(* --------- the matcher on every short dependency list and CDB ---------- *)

EngineObj == <<"/", "src", "/", "eng", ".o">>

DepPool ==
  {<<"a", ".o">>, <<"/", "src", "/", "ln", "/", "b", ".o">>, <<"c", ".o">>,
   <<"b", ".a">>, <<"c", ".a">>, EngineObj}

CdbPool == {"A1", "A2", "B2", "E1"}

MaxDeps == 2
MaxCdb == 2

\* The fragments of a CDB, one file per command, written in CDB order.
FragmentFiles(toks) ==
  [p \in {InCdb(<<"u", ToString(k), ".json">>) : k \in 1..Len(toks)} |->
     LET k == CHOOSE j \in 1..Len(toks) : InCdb(<<"u", ToString(j), ".json">>) = p
     IN  [data |-> <<toks[k]>> \o Sentinel, birth |-> k, ctime |-> k,
          isfile |-> TRUE, kind |-> "fragment"]]

\* The read loop run over a listing chosen among the sorted ones.
RECURSIVE ReadAll(_, _)
ReadAll(p, f) ==
  IF p.pc = "read" /\ p.nfile < Len(p.files) THEN ReadAll(FragmentRead(p, f), f) ELSE p

AtMatch(p, f) ==
  CdbLoaded(ReadAll(Listed(p, f, CHOOSE files \in files_by_creation_time(f, p.cdb_path) : TRUE), f))

MatchFs(e, deps, toks) ==
  WithFragments(LinkOutputs(EmptyFs, AtLink(Foo, e, {}), "bin1", DepsOf(Foo, deps), Len(toks) + 1),
                <<>>, FragmentFiles(toks))

InitMatch ==
  /\ comp = NoComp
  /\ \E deps \in BoundedSeq(DepPool, MaxDeps), toks \in BoundedSeq(CdbPool, MaxCdb),
        e \in {EngineLib, EngineObj} :
       /\ proc = [i \in {"L1"} |-> AtMatch(AtList(Foo, e, deps), MatchFs(e, deps, toks))]
       /\ clock = Len(toks) + 2
       /\ fs = MatchFs(e, deps, toks)

NextMatch ==
  \/ \E i \in DOMAIN proc : Match(i)
  \/ \E i \in DOMAIN proc : WriteRecord(i)

SpecMatch == InitMatch /\ [][NextMatch]_vars

(* ------- one capture run beside compile steps that write fragments ------ *)

MainArgvs ==
  {CaptureArgv(Foo),
   <<Clang, LFuzzingEngine, FlagCdb, CdbDir, FlagO \o Foo>>,
   <<Clang, LFuzzingEngine, FlagO, Foo>>,
   <<Clang, FlagO, Foo, FlagCdb, CdbDir>>}

LinkExits == {0, 1, 2}
ToolExits == {0, 1}
BinPool == {"bin1", "binNoSection", "binNoField", "binEmpty"}

MainDeps == <<<<"a", ".o">>, <<"c", ".o">>, <<"b", ".a">>>>

MainDepTexts(out) == {DepsOf(out, MainDeps), TextOf(<<<<"bar">> \o Colon>>)}

Compilers ==
  [c \in {"c1", "c2"} |->
     [pc |-> "idle",
      file |-> IF c = "c1" THEN InCdb(<<"a", ".1", ".json">>) ELSE InCdb(<<"b", ".2", ".json">>),
      text |-> IF c = "c1" THEN "A1" ELSE "B2"]]

Init ==
  /\ clock = 1
  /\ fs = EmptyFs
  /\ comp = Compilers
  /\ \E argv \in MainArgvs, e \in {None, EngineLib} :
       proc = [i \in {"L1"} |-> NewProc(argv, e, {})]

Next ==
  \/ \E i \in DOMAIN proc : Execute(i)
  \/ \E i \in DOMAIN proc : GetFlags(i)
  \/ \E i \in DOMAIN proc, rc \in LinkExits, bin \in BinPool :
       \E text \in MainDepTexts(proc[i].output_file) : RunLink(i, rc, bin, text)
  \/ \E i \in DOMAIN proc, rc \in ToolExits : Identify(i, rc)
  \/ \E i \in DOMAIN proc : ParseDeps(i)
  \/ \E i \in DOMAIN proc, failed \in BOOLEAN : ListArchives(i, failed)
  \/ \E i \in DOMAIN proc : ListFragments(i)
  \/ \E i \in DOMAIN proc : ReadFragment(i)
  \/ \E i \in DOMAIN proc : ParseCdb(i)
  \/ \E i \in DOMAIN proc : Match(i)
  \/ \E i \in DOMAIN proc : WriteRecord(i)
  \/ \E c \in DOMAIN comp : CompOpen(c)
  \/ \E c \in DOMAIN comp : CompBody(c)
  \/ \E c \in DOMAIN comp : CompClose(c)

Spec == Init /\ [][Next]_vars

(* ---------- two capture runs that share the fragment directory ---------- *)

Bar == <<"bar">>

TwoArgvs ==
  [i \in {"L1", "L2"} |->
     IF i = "L1" THEN CaptureArgv(Foo)
     ELSE <<Clang, FlagO \o Bar, LFuzzingEngine, FlagCdb, CdbDir>>]

InitTwo ==
  /\ clock = 3
  /\ fs = FragmentFiles(<<"A1", "B2">>)
  /\ comp = NoComp
  /\ proc = [i \in {"L1", "L2"} |-> NewProc(TwoArgvs[i], EngineLib, {})]

NextTwo ==
  \/ \E i \in DOMAIN proc : GetFlags(i)
  \/ \E i \in DOMAIN proc, bin \in {"bin1", "bin2"} :
       RunLink(i, 0, bin, DepsOf(proc[i].output_file, <<<<"a", ".o">>>>))
  \/ \E i \in DOMAIN proc : Identify(i, 0)
  \/ \E i \in DOMAIN proc : ParseDeps(i)
  \/ \E i \in DOMAIN proc : ListArchives(i, FALSE)
  \/ \E i \in DOMAIN proc : ListFragments(i)
  \/ \E i \in DOMAIN proc : ReadFragment(i)
  \/ \E i \in DOMAIN proc : ParseCdb(i)
  \/ \E i \in DOMAIN proc : Match(i)
  \/ \E i \in DOMAIN proc : WriteRecord(i)

SpecTwo == InitTwo /\ [][NextTwo]_vars

(* ------------------------------- claims -------------------------------- *)

Procs == DOMAIN proc

\* The invocation names the fuzzing engine: by the configured value or by the
\* literal flag.
HasIndicator(p) ==
  (Truthy(p.fuzzer_engine) /\ InArgv(p.fuzzer_engine, p.given))
    \/ InArgv(LFuzzingEngine, p.given)

\* The positions of p.given that hold an output flag, in either form.
SeparatedAt(argv, k) == argv[k] = FlagO /\ k < Len(argv)
ConcatenatedAt(argv, k) == StartsWith(argv[k], FlagO) /\ argv[k] # FlagO
OutputFlagAt(argv) ==
  {k \in 2..Len(argv) : SeparatedAt(argv, k) \/ ConcatenatedAt(argv, k)}
OutputValueAt(argv, k) ==
  IF SeparatedAt(argv, k) THEN argv[k + 1] ELSE DropFirst(argv[k], 1)

InCapture(p) == p.pc \notin {"start", "exec"}

\* C4: in capture mode the output file is found whenever the arguments hold
\* "-o <path>" or "-o<path>" at any position, and is the path of such an
\* occurrence; "Missing output file" ends the run only when there is no
\* output flag in either form.
C4_OutputFoundInEitherForm ==
  \A i \in Procs :
    InCapture(proc[i]) =>
      LET occ == OutputFlagAt(proc[i].given)
      IN  IF occ = {} THEN proc[i].pc = "exit" /\ proc[i].output_file = None
          ELSE \E k \in occ : proc[i].output_file = OutputValueAt(proc[i].given, k)

\* C8: an invocation that names no fuzzing engine (neither the configured
\* value, also when it is unset or empty, nor -lFuzzingEngine) only ever
\* execs the toolchain with its arguments unchanged but argv[0], extracts
\* nothing and writes nothing to the file system.
C8_PassthroughState ==
  \A i \in Procs :
    ~HasIndicator(proc[i]) =>
      /\ proc[i].pc \in {"start", "exec"}
      /\ proc[i].output_file = None /\ proc[i].cdb_path = None
      /\ proc[i].build_id = None
      /\ Len(proc[i].argv) = Len(proc[i].given)
      /\ \A k \in 2..Len(proc[i].given) : proc[i].argv[k] = proc[i].given[k]
      /\ proc[i].pc = "exec" => proc[i].argv[1] = LocalBin(proc[i].given[1])

C8_PassthroughStep ==
  \A i \in Procs :
    (~HasIndicator(proc[i]) /\ proc'[i] # proc[i]) =>
      /\ proc[i].pc = "start" /\ proc'[i].pc = "exec"
      /\ fs' = fs

C8_Passthrough == []C8_PassthroughState /\ [][C8_PassthroughStep]_vars

C8_Witness ==
  \E i \in Procs :
    /\ ~HasIndicator(proc[i]) /\ proc[i].pc = "exec"
    /\ Len(proc[i].given) >= 3
    /\ proc[i].fuzzer_engine = EngineLib

(* C2, C3: the dependency file as the parser found it. *)

DepData(i) == fs[realpath(dependency_file(proc[i]))].data

IsSuffixOf(x, y) == \E k \in 0..Len(y) : x = SubSeq(y, k + 1, Len(y))

\* The lines of a text, by the positions of its newlines.
NthLine(data, n) ==
  LET nl == {k \in 1..Len(data) : data[k] = "\n"} \cup {0, Len(data) + 1}
      start == CHOOSE k \in nl : Cardinality({j \in nl : j < k}) = n - 1
      stop == CHOOSE k \in nl : Cardinality({j \in nl : j < k}) = n
  IN  Strip(SubSeq(data, start + 1, stop - 1))

LineCount(data) == Cardinality({k \in 1..Len(data) : data[k] = "\n"})

ParseRan(p) == p.pc \in {"ar", "exit"}

\* C2 as claimed: a first line other than "<canonical output>: \" is fatal.
C2_HeaderMustEqual ==
  \A i \in Procs :
    (ParseRan(proc[i]) /\ (LineCount(DepData(i)) = 0
        \/ NthLine(DepData(i), 1) # realpath(proc[i].output_file) \o Colon))
      => proc[i].pc = "exit"

\* C2 as amended: the parse is fatal exactly when the file is empty or its
\* stripped first line is not a suffix of "<canonical output>: \".
C2_HeaderMustBeSuffix ==
  \A i \in Procs :
    ParseRan(proc[i]) =>
      (proc[i].pc = "exit" <=>
         (LineCount(DepData(i)) = 0
            \/ ~IsSuffixOf(NthLine(DepData(i), 1),
                           realpath(proc[i].output_file) \o Colon)))

\* A relative header is accepted and the dependencies are returned.
C2_Witness ==
  \E i \in Procs :
    /\ proc[i].pc = "ar"
    /\ NthLine(DepData(i), 1) = Foo \o Colon
    /\ proc[i].deps # <<>>

RootedUnder(path, d) == path = d \/ StartsWith(path, d \o <<"/">>)

SystemDirs == {<<"/", "usr">>, <<"/", "clang">>, <<"/", "lib">>}

Dropped(path, ign) == (\E d \in SystemDirs : RootedUnder(path, d)) \/ path \in ign

Unmarked(line) == IF EndsWith(line, Continuation) THEN DropLast(line, 2) ELSE line

\* The canonical paths listed on lines 2.. up to the first blank line, the
\* dropped ones left out.
RECURSIVE ListedFrom(_, _, _)
ListedFrom(data, n, ign) ==
  IF n > LineCount(data) \/ NthLine(data, n) = <<>> THEN <<>>
  ELSE LET path == realpath(Unmarked(NthLine(data, n)))
       IN  (IF Dropped(path, ign) THEN <<>> ELSE <<path>>) \o ListedFrom(data, n + 1, ign)

\* C3: with an accepted header the parser returns the canonical paths listed
\* before the first blank line, in order, duplicates kept, less exactly those
\* rooted under /usr, /clang or /lib or in the ignored set.
C3_ExactFilter ==
  \A i \in Procs :
    proc[i].pc = "ar" => proc[i].deps = ListedFrom(DepData(i), 2, proc[i].ignored_deps)

(* C5: the array rebuilt from a directory of complete fragments. *)

FilesIn(folder, kind) ==
  {p \in DOMAIN fs : InFolder(p, folder) /\ fs[p].isfile /\ fs[p].kind = kind}

Complete(p) ==
  /\ Len(fs[p].data) = 3
  /\ fs[p].data[1] \in ObjTokens
  /\ SubSeq(fs[p].data, 2, 3) = Sentinel

ReadDone(p) == p.pc \in {"match", "exit"}

CommandsIn(order) == [k \in 1..Len(order) |-> Cmd(fs[order[k]].data[1])]

\* C5 as claimed: N complete fragments, whatever their names, give the N
\* commands in ascending order of creation time.
C5_AnyNameByCreation ==
  \A i \in Procs :
    LET frags == FilesIn(proc[i].cdb_path, "fragment")
        birth(p) == fs[p].birth
    IN  (ReadDone(proc[i]) /\ \A p \in frags : Complete(p)) =>
          /\ proc[i].pc = "match"
          /\ \E order \in SortedBy(frags, birth) : proc[i].cdb = CommandsIn(order)

Recognised(p) == EndsWith(p, JsonSuffix) /\ ~EndsWith(p, LinkerCommandsSuffix)

\* C5 as amended: the complete fragments whose names end in .json and not
\* in _linker_commands.json give their commands, one each, in ascending order
\* of os.path.getctime (equal times in either order); other files give none.
C5_JsonNamesByCtime ==
  \A i \in Procs :
    LET frags == {p \in FilesIn(proc[i].cdb_path, "fragment") : Recognised(p)}
        ctime(p) == fs[p].ctime
    IN  (ReadDone(proc[i]) /\ \A p \in frags : Complete(p)) =>
          /\ proc[i].pc = "match"
          /\ \E order \in SortedBy(frags, ctime) : proc[i].cdb = CommandsIn(order)

C5_Witness ==
  \E i \in Procs :
    /\ proc[i].pc = "match"
    /\ Len(proc[i].cdb) = 2
    /\ proc[i].cdb[1] # proc[i].cdb[2]
    /\ FilesIn(proc[i].cdb_path, "record") # {}

(* C1, C7: what the matcher binds to each dependency. *)

MatchRan(p) == p.pc \in {"write", "done"}

\* The dependencies looked up: object files by canonical path, but for the
\* fuzzing engine, and archive members by name.
ObjKeys(p) == {realpath(obj_deps(p)[k]) : k \in {j \in 1..Len(obj_deps(p)) : obj_deps(p)[j] # p.fuzzer_engine}}
MemberKeys(p) == {p.archive_deps[k] : k \in 1..Len(p.archive_deps)}

ObjHits(p, d) ==
  {j \in 1..Len(p.cdb) : realpath(join(p.cdb[j].directory, p.cdb[j].output)) = d}
MemberHits(p, d) == {j \in 1..Len(p.cdb) : basename(p.cdb[j].output) = d}

HitsOf(p, d) == IF d \in ObjKeys(p) THEN ObjHits(p, d) ELSE MemberHits(p, d)

BoundTo(p, d) == p.commands[CHOOSE k \in 1..Len(p.commands) : p.commands[k].key = d].command

Min(S) == CHOOSE k \in S : \A j \in S : k <= j
Max(S) == CHOOSE k \in S : \A j \in S : j <= k

RecordOf(p) == fs[realpath(commands_path(p))].data[1]

\* C1 as claimed: of two or more matching commands the first in CDB order
\* is bound to the dependency.
C1_FirstMatchWins ==
  \A i \in Procs :
    MatchRan(proc[i]) =>
      \A d \in ObjKeys(proc[i]) \cup MemberKeys(proc[i]) :
        Cardinality(HitsOf(proc[i], d)) >= 2 =>
          /\ HasKey(proc[i].commands, d)
          /\ BoundTo(proc[i], d) = proc[i].cdb[Min(HitsOf(proc[i], d))]

\* C1 as amended: of two or more matching commands the last in CDB order is
\* bound to the dependency, and the record lists the bound commands.
C1_LastMatchWins ==
  \A i \in Procs :
    MatchRan(proc[i]) =>
      /\ \A d \in ObjKeys(proc[i]) \cup MemberKeys(proc[i]) :
           Cardinality(HitsOf(proc[i], d)) >= 2 =>
             /\ HasKey(proc[i].commands, d)
             /\ BoundTo(proc[i], d) = proc[i].cdb[Max(HitsOf(proc[i], d))]
      /\ proc[i].pc = "done" =>
           RecordOf(proc[i]).compile_commands = Values(proc[i].commands)

\* Two different commands match one object file and one archive member.
C1_Witness ==
  \E i \in Procs :
    /\ proc[i].pc = "done"
    /\ \E d \in ObjKeys(proc[i]) :
         /\ Cardinality(ObjHits(proc[i], d)) >= 2
         /\ proc[i].cdb[Min(ObjHits(proc[i], d))] # proc[i].cdb[Max(ObjHits(proc[i], d))]
    /\ \E d \in MemberKeys(proc[i]) :
         /\ Cardinality(MemberHits(proc[i], d)) >= 2
         /\ proc[i].cdb[Min(MemberHits(proc[i], d))] # proc[i].cdb[Max(MemberHits(proc[i], d))]

InSeq(x, q) == \E k \in 1..Len(q) : q[k] = x

\* C7: a dependency no command matches is reported, ends nothing and has no
\* entry in compile_commands; each matched dependency has exactly one entry,
\* a command of the CDB that matches it; the record is written.
C7_UnmatchedReportedNotFatal ==
  \A i \in Procs :
    LET p == proc[i]
        keys == ObjKeys(p) \cup MemberKeys(p)
        matched == {d \in keys : HitsOf(p, d) # {}}
    IN  /\ p.pc # "exit"
        /\ MatchRan(p) =>
             /\ \A d \in keys \ matched : InSeq(d, p.notfound) /\ ~HasKey(p.commands, d)
             /\ \A d \in matched : ~InSeq(d, p.notfound)
             /\ Len(p.commands) = Cardinality(matched)
             /\ \A d \in matched :
                  /\ HasKey(p.commands, d)
                  /\ \E j \in HitsOf(p, d) : BoundTo(p, d) = p.cdb[j]
        /\ p.pc = "done" =>
             /\ realpath(commands_path(p)) \in DOMAIN fs
             /\ RecordOf(p).compile_commands = Values(p.commands)
             /\ Len(RecordOf(p).compile_commands) = Cardinality(matched)
             /\ \A k \in 1..Len(RecordOf(p).compile_commands) :
                  InSeq(RecordOf(p).compile_commands[k], p.cdb)

\* Fragments for a.o and b.o, dependencies [a.o, c.o].
C7_Witness ==
  \E i \in Procs :
    /\ proc[i].pc = "done"
    /\ proc[i].cdb = <<Cmd("A1"), Cmd("B2")>>
    /\ obj_deps(proc[i]) = <<realpath(<<"a", ".o">>), realpath(<<"c", ".o">>)>>
    /\ RecordOf(proc[i]).compile_commands = <<Cmd("A1")>>
    /\ proc[i].notfound = <<realpath(<<"c", ".o">>)>>

(* C6: fragments that are torn while a capture run reads the directory. *)

ListedFragments(p) == {p.files[k] : k \in {j \in 1..Len(p.files) : Recognised(p.files[j])}}

HasCdb(p) == p.pc \in {"match", "write", "done"}

\* C6 as claimed: a fragment without its sentinel when the directory is
\* read makes the reconstruction fail.
C6_TornWhenListedAborts ==
  \A i \in Procs : proc[i].torn # {} => ~HasCdb(proc[i])

\* C6 as amended: a listed fragment (a name in .json) that lacks its sentinel
\* when the read loop opens it ends the run, ...
C6_TornWhenOpenedStep ==
  \A i \in Procs :
    LET p == proc[i]
        file == p.files[p.nfile + 1]
    IN  (/\ p.pc = "read" /\ p.nfile < Len(p.files) /\ proc'[i] # p
         /\ Recognised(file)
         /\ ~EndsWith(fs[realpath(file)].data, Sentinel))
        => /\ proc'[i].pc = "exit" /\ proc'[i].exit_code # 0
           /\ proc'[i].cdb = <<>>

\* ... and a CDB, once there is one, holds one command for each listed
\* fragment, each complete, and a record is written only from such a CDB.
C6_NoneDropped ==
  \A i \in Procs :
    /\ HasCdb(proc[i]) =>
         /\ \A f \in ListedFragments(proc[i]) :
              Complete(realpath(f)) /\ InSeq(Cmd(fs[realpath(f)].data[1]), proc[i].cdb)
         /\ Len(proc[i].cdb) = Cardinality(ListedFragments(proc[i]))
    /\ proc[i].pc = "exit" => \A path \in DOMAIN fs : fs[path].kind # "record"

C6_TornNeverDropped == []C6_NoneDropped /\ [][C6_TornWhenOpenedStep]_vars

\* A run that read one fragment whole and ended on the next, torn one.
C6_Witness ==
  \E i \in Procs :
    /\ proc[i].pc = "exit"
    /\ Len(proc[i].contents) = 1
    /\ proc[i].nfile < Len(proc[i].files)
    /\ Recognised(proc[i].files[proc[i].nfile + 1])
    /\ ~EndsWith(fs[realpath(proc[i].files[proc[i].nfile + 1])].data, Sentinel)

(* C9: fatal conditions, the exit status and the record. *)

Rank(pc) ==
  CASE pc = "start" -> 0 [] pc = "link" -> 1 [] pc = "identify" -> 2
    [] pc = "parse" -> 3 [] pc = "ar" -> 4 [] pc = "list" -> 5 [] pc = "read" -> 6
    [] pc = "match" -> 7 [] pc = "write" -> 8 [] pc = "done" -> 9 [] OTHER -> 0

CdbFlagAt(argv) == {k \in 2..(Len(argv) - 1) : argv[k] = FlagCdb}

CarriesBuildId(elf_data) ==
  \E a \in 1..Len(elf_data) : \E b \in 1..Len(elf_data[a]) :
    elf_data[a][b].Name = BuildIdSection /\ elf_data[a][b].Note # None

Records == {path \in DOMAIN fs : fs[path].kind = "record"}

\* C9: a run that met a fatal condition ends with a non-zero status (the
\* link's own when the link failed) and writes no record: whoever is past a
\* check has passed it, and the record is there only when the run is done.
C9_FatalMeansNoRecord ==
  \A i \in Procs :
    LET p == proc[i]
        r == Rank(p.pc)
    IN  /\ p.pc = "exit" => p.exit_code # 0
        /\ (p.pc = "exit" /\ p.ran # <<>> /\ p.ran[Len(p.ran)].returncode # 0
              /\ p.ran[Len(p.ran)].tool = "link")
             => p.exit_code = p.ran[Len(p.ran)].returncode
        /\ p.pc # "done" => Records = {}
        /\ p.pc # "exit" => \A k \in 1..Len(p.ran) : p.ran[k].returncode = 0
        /\ r >= 1 => OutputFlagAt(p.given) # {} /\ CdbFlagAt(p.given) # {}
        /\ r >= 2 => Len(p.ran) >= 1
        /\ r >= 3 => /\ Len(p.ran) >= 2
                     /\ CarriesBuildId(Notes(fs[realpath(p.output_file)].data[1]))
        /\ r >= 4 => /\ LineCount(DepData(i)) > 0
                     /\ IsSuffixOf(NthLine(DepData(i), 1), realpath(p.output_file) \o Colon)
        /\ r >= 7 => \A f \in ListedFragments(p) : Complete(realpath(f))

\* A failed link: its exit code is the wrapper's.
C9_Witness ==
  \E i \in Procs :
    /\ proc[i].pc = "exit" /\ proc[i].exit_code = 2
    /\ proc[i].ran = <<[tool |-> "link", returncode |-> 2]>>
    /\ \E c \in DOMAIN comp : comp[c].pc = "closed"

(* C10: the record file of one build identifier across invocations. *)

\* C10 as claimed: a record, once written, never changes.
C10_WrittenOnceStep ==
  \A path \in DOMAIN fs :
    fs[path].kind = "record" => fs'[path].data = fs[path].data

C10_NeverRewritten == [][C10_WrittenOnceStep]_vars

\* C10 as amended: an invocation writes its record in one step, its last,
\* to <cdb_path>/<its build id>_linker_commands.json; the contents of a
\* record file change only by such a step, also over the record of an earlier
\* invocation that had the same build identifier.
C10_OnlyOwnWriteStep ==
  /\ \A path \in DOMAIN fs' :
       (fs'[path].kind = "record" /\ (path \notin DOMAIN fs \/ fs'[path] # fs[path])) =>
         \E i \in Procs :
           /\ proc[i].pc = "write" /\ proc'[i].pc = "done" /\ proc'[i].exit_code = 0
           /\ path = CdbDir \o <<"/">> \o proc[i].build_id \o <<"_linker_commands", ".json">>
           /\ Len(fs'[path].data) = 1
           /\ fs'[path].data[1].gnu_build_id = proc[i].build_id
           /\ fs'[path].data[1].output = proc[i].output_file
           /\ fs'[path].data[1].args = proc[i].argv
           /\ \A j \in Procs \ {i} : proc'[j] = proc[j]
  /\ \A i \in Procs : proc[i].pc = "done" => proc'[i] = proc[i]

C10_LastWriterWins == [][C10_OnlyOwnWriteStep]_vars

\* Two finished runs with one build identifier: the file holds the record
\* of the later one.
C10_Witness ==
  \E i, j \in Procs :
    /\ i # j /\ proc[i].pc = "done" /\ proc[j].pc = "done"
    /\ proc[i].build_id = proc[j].build_id
    /\ proc[i].output_file # proc[j].output_file
    /\ RecordOf(proc[i]).output = proc[j].output_file

====
